---- MODULE Spec2Model ----
(***************************************************************************)
(* Model of the game-seeker-vault updater.                                 *)
(*                                                                         *)
(* Part A (Spec): one RateController (updater/rate_controller.py) shared   *)
(* by NumTasks client tasks.  Time is counted in whole seconds.  asyncio   *)
(* runs the code between two suspension points as one step, so every       *)
(* action below is one such stretch of code.                               *)
(*                                                                         *)
(* Part B (SpecAdjust): the same controller driven by a single client over *)
(* a longer time, with the body of _evaluate_concurrency_adjustment        *)
(* (lines 286-378) run at every success record, that is, with the lock of  *)
(* line 285 taken as granted.  Part A shows that in the program the lock   *)
(* is never granted there; Part B is about the adjustment rule itself.     *)
(*                                                                         *)
(* Part C (SpecPipe): the build runs of updater/main.py over the persisted *)
(* catalog (the keys id-map and games-data): the differential refresh and  *)
(* the append run in its normal and batch sub-modes, one upstream call per *)
(* step.                                                                   *)
(*                                                                         *)
(* Part D (SpecCalc): the pure functions of the clients and of the builder *)
(* (price extraction, the deal constructed from Storefront prices, title   *)
(* matching), applied to inputs drawn from bounded sets.                   *)
(*                                                                         *)
(* Part E (SpecFetch): the requests of one call of                         *)
(* SteamClient.get_game_info_from_api.                                     *)
(***************************************************************************)
EXTENDS Integers, Sequences, FiniteSets, TLC

\* ---------------------------------------------------------------- bounds
NumTasks == 4          \* calls of _request_with_retry sharing the controller
MaxTime == 5           \* the clock stops here
MaxFaults == 1         \* failed requests (429, 403, exception) in one behaviour
WindowSeconds == 2     \* window_seconds of the modelled host
WindowLimit == 2       \* window_limit of the modelled host
WarmupRequests == 2    \* warmup_requests of the modelled host
AdjustStep == 10       \* seconds between two clock readings in Part B
MaxAdjustTime == 60    \* the clock of Part B stops here
MaxAdjustRequests == 4 \* requests of the client of Part B
MaxAdjustFaults == 3   \* failed requests of the client of Part B
NumGames == 4          \* app ids known to the storefront
MaxPipeFaults == 1     \* failed calls and crashes of the build runs
MaxChanges == 1        \* upstream price changes
MaxDeleteList == 1     \* app ids in delete_appid_list.txt
MaxRuns == 2           \* commands started in one behaviour
InitialGames == 2      \* games of the catalog persisted at the start
BatchThreshold == 2    \* new ids from which the append run goes to batch mode
CheckpointInterval == 2  \* CHECKPOINT_INTERVAL
MaxMinor == 220        \* largest initial and final of price_overview, in minor units
MaxPrice == 120        \* largest regular and sale price of a constructed deal
MaxCandidates == 3     \* entries of the app list that a title is scored against
MaxRegions == 3        \* regions of one call of get_game_info_from_api

\* ------------------------------------------------------ program constants
TargetRps == 1             \* target_rps, requests per second
TokenCapacity == 3         \* token_capacity
WarmupConcurrency == 3     \* warmup_concurrency
InitialConcurrency == 5    \* initial_concurrency
TokenScale == 2            \* tokens are counted in halves (backoff multiplier 2)
EwmaAlphaMilli == 200      \* ewma_alpha, in thousandths
InitialEwmaMilli == 1500   \* ewma_rtt, in milliseconds
MinBaseRttTenths == 5      \* base_rtt lower clamp, in tenths of a second
MaxBaseRttTenths == 30     \* base_rtt upper clamp, in tenths of a second
MaxRttSamples == 100       \* rtt_samples kept
P95MinSamples == 20        \* samples needed for a measured p95
IncreaseCooldown == 30     \* seconds between two increases
MaxConcurrency == 10       \* cap of current_concurrency
TwoMinutes == 120
FiveMinutes == 300
RegularPrice == 100        \* the regular price of every game upstream
SalePrice == 50            \* the price of a game that is on sale
MinorUnits == 100          \* minor units of one unit of the currency
ScoreExactMatch == 100     \* SCORE_EXACT_MATCH
ScoreAutoAcceptThreshold == 80   \* SCORE_AUTO_ACCEPT_THRESHOLD
ScoreCandidateThreshold == 60    \* SCORE_CANDIDATE_THRESHOLD
MaxRetries == 3            \* max_retries of _request_with_retry
DiffRegions == 2           \* regions=['JP', 'US'] of the refresh and of normal mode
BatchRegions == 1          \* regions=['JP'] of batch mode

Tasks == 1..NumTasks
NoTask == 0
Times == 0..MaxTime
WarmupSem == 0             \* id of warmup_semaphore
ClockTimes == 0..(MaxTime + MaxAdjustTime)
Client == 1                \* the single client of Part B
MaxSemId == MaxFaults + MaxAdjustRequests + 2   \* ids of the objects self.semaphore has named
NoRetryAfter == -1         \* retry_after is None
NoPrice == -1              \* a price that is None
ClientError == -1          \* status of a request that raised aiohttp.ClientError
TimeoutError == -2         \* status of a request that raised asyncio.TimeoutError
AppIds == 1..NumGames
NoItadId == 0              \* an id-map entry without itadId
DealKinds == {"none", "dash", "full", "sale"}   \* what ITAD holds for a game

VARIABLES
    now,                       \* the clock (time.monotonic / time.time)
    tokens,                    \* self.tokens, in 1/TokenScale
    last_token_update,
    sent_times,                \* metrics.sent_times
    success_times,             \* metrics.success_times
    error_times,               \* metrics.error_times
    rtt_samples,               \* metrics.rtt_samples, in seconds
    ewma_rtt,                  \* metrics.ewma_rtt, in milliseconds
    base_rtt,                  \* metrics.base_rtt in tenths, 0 is None
    total_requests,
    http_429_count,
    http_403_count,
    network_error_count,
    backoff_multiplier,
    last_backoff_time,
    current_concurrency,
    last_concurrency_increase,
    warmup_completed,
    lock,                      \* holder of self.lock, NoTask when free
    semaphore,                 \* id of the object self.semaphore names
    semValue,                  \* free slots of every semaphore object
    pc,                        \* where each task is
    sem,                       \* the semaphore object each task chose
    wake,                      \* end of each task's sleep
    start,                     \* request_start of each task
    status,                    \* the response or the exception each task got
    retryAfter,                \* the Retry-After each task got
    attempt,                   \* attempt of the loop of _request_with_retry
    grantsAt,                  \* history: permits granted at each second
    kvIdMap,                   \* the persisted key id-map
    kvGames,                   \* the persisted key games-data
    mappingFile,               \* mapping_result.txt
    checkpoints,               \* games_checkpoint_<n>.json, by n
    lockFile,                  \* batch_in_progress.lock exists
    itadDeal,                  \* upstream: the ITAD deal of each game
    steamSale,                 \* upstream: the game is on sale on Steam
    run,                       \* the locals of the build run in progress
    pipeFaults,                \* failed calls and crashes so far
    changes,                   \* upstream changes so far
    runs,                      \* commands started so far
    calc,                      \* the last call of a pure function: inputs and result
    fetch                      \* the call of get_game_info_from_api in progress

rcVars == <<now, tokens, last_token_update, sent_times, success_times,
            error_times, rtt_samples, ewma_rtt, base_rtt, total_requests,
            http_429_count, http_403_count, network_error_count,
            backoff_multiplier, last_backoff_time, current_concurrency,
            last_concurrency_increase, warmup_completed, lock, semaphore,
            semValue, pc, sem, wake, start, status, retryAfter, attempt,
            grantsAt>>

pipeVars == <<kvIdMap, kvGames, mappingFile, checkpoints, lockFile, itadDeal,
              steamSale, run, pipeFaults, changes, runs>>

auxVars == <<calc, fetch>>

vars == <<rcVars, pipeVars, auxVars>>

\* ---------------------------------------------------------------- helpers
Min(a, b) == IF a < b THEN a ELSE b

Max(a, b) == IF a > b THEN a ELSE b

CeilDiv(a, b) == (a + b - 1) \div b

RECURSIVE Insert(_, _)
Insert(x, s) ==
    IF s = <<>> THEN <<x>>
    ELSE IF x <= Head(s) THEN <<x>> \o s
    ELSE <<Head(s)>> \o Insert(x, Tail(s))

RECURSIVE Sorted(_)
Sorted(s) == IF s = <<>> THEN <<>> ELSE Insert(Head(s), Sorted(Tail(s)))

\* the popleft loop of acquire: drop the head while it is older than the cutoff
RECURSIVE EvictOld(_, _)
EvictOld(times, cutoff) ==
    IF Len(times) > 0 /\ Head(times) < cutoff
    THEN EvictOld(Tail(times), cutoff)
    ELSE times

\* a refill that forgets the capacity
RefillUncapped(tok, elapsed, mult) ==
    tok + (elapsed * TargetRps * TokenScale) \div mult

\* tokens after the refill of acquire, in 1/TokenScale
Refill(tok, elapsed, mult) ==
    Min(TokenCapacity * TokenScale,
        tok + (elapsed * TargetRps * TokenScale) \div mult)

\* a window test that is off by one
CanProceedOffByOne(tok, window) ==
    tok >= TokenScale /\ Len(window) <= WindowLimit

\* the test of acquire that lets a request through
CanProceed(tok, window) ==
    tok >= TokenScale /\ Len(window) < WindowLimit

\* wait_time of acquire, rounded up to whole seconds
WaitTime(tok, window, mult, t) ==
    LET tokenWait == IF tok < TokenScale
                     THEN CeilDiv((TokenScale - tok) * mult, TargetRps * TokenScale)
                     ELSE 0
        windowWait == IF Len(window) >= WindowLimit
                      THEN Max(0, (Head(window) + WindowSeconds) - t)
                      ELSE 0
    IN  Max(tokenWait, windowWait)

\* base_rtt of _record_success: the median sample clamped, in tenths of a second
BaseRtt(samples) ==
    LET sorted_samples == Sorted(samples)
        median_rtt == sorted_samples[(Len(sorted_samples) \div 2) + 1]
    IN  Max(MinBaseRttTenths, Min(MaxBaseRttTenths, median_rtt * 10))

\* ewma_rtt of _record_success, in milliseconds
Ewma(old, rtt) ==
    (EwmaAlphaMilli * rtt * 1000 + (1000 - EwmaAlphaMilli) * old) \div 1000

\* a backoff that steps down by one instead of halving
DecrementedConcurrency(c) == Max(1, c - 1)

\* current_concurrency after a 429
HalvedConcurrency(c) == Max(1, c \div 2)

\* base_backoff of report_http_error, in seconds
BaseBackoff(count) ==
    LET e == Min(count - 1, 3)
        p == IF e <= 0 THEN 1 ELSE IF e = 1 THEN 2 ELSE IF e = 2 THEN 4 ELSE 8
    IN  Min(60, 5 * p)

\* a permit() that always enters through the gate of current_concurrency
PermitSemaphoreMain == semaphore

\* the gate permit() picks on entry
PermitSemaphore == IF ~warmup_completed THEN WarmupSem ELSE semaphore

\* pcs of a task that is inside a permit() scope (it holds a gate slot)
InScopePcs == {"acquire", "sleeping", "request", "record_success",
               "record_error", "eval_lock"}

\* pcs at which a task is suspended
SuspendedPcs == {"sem_wait", "acquire", "sleeping", "request", "record_success",
                 "record_error", "eval_lock", "report", "backoff", "retry_wait"}

InScope == {t \in Tasks : pc[t] \in InScopePcs}

\* pcs at which a task goes on without suspending when the lock is free
\* (an uncontended "async with self.lock" does not yield to the event loop)
LockPcs == {"acquire", "record_success", "record_error", "report"}

\* the tasks that are running, not suspended: the event loop gives the turn
\* to another task, and time passes, only when the running task suspends
Busy == {t \in Tasks : pc[t] \in LockPcs /\ lock = NoTask}

CanRun(t) == Busy \subseteq {t}

\* requests that have failed so far: 429, 403 and 5xx responses and exceptions
Faults ==
    http_429_count + http_403_count + network_error_count
    + Cardinality({t \in Tasks : status[t] \in {403, 429, 500}
                                   \/ pc[t] = "record_error"})

\* ------------------------------------------------------------------- Init
RCInit ==
    /\ now = 0
    /\ tokens = 0
    /\ last_token_update = 0
    /\ sent_times = <<>>
    /\ success_times = <<>>
    /\ error_times = <<>>
    /\ rtt_samples = <<>>
    /\ ewma_rtt = InitialEwmaMilli
    /\ base_rtt = 0
    /\ total_requests = 0
    /\ http_429_count = 0
    /\ http_403_count = 0
    /\ network_error_count = 0
    /\ backoff_multiplier = 1
    /\ last_backoff_time = 0
    /\ current_concurrency = InitialConcurrency
    /\ last_concurrency_increase = 0
    /\ warmup_completed = FALSE
    /\ lock = NoTask
    /\ semaphore = 1
    /\ semValue = [i \in 0..MaxSemId |->
                     IF i = WarmupSem THEN WarmupConcurrency
                     ELSE IF i = 1 THEN InitialConcurrency ELSE 0]
    /\ pc = [t \in Tasks |-> "idle"]
    /\ sem = [t \in Tasks |-> WarmupSem]
    /\ wake = [t \in Tasks |-> 0]
    /\ start = [t \in Tasks |-> 0]
    /\ status = [t \in Tasks |-> 0]
    /\ retryAfter = [t \in Tasks |-> NoRetryAfter]
    /\ attempt = [t \in Tasks |-> 0]
    /\ grantsAt = [i \in ClockTimes |-> 0]

\* ------------------------------------------------- Part C: catalog records
Range(s) == {s[k] : k \in DOMAIN s}

\* the ids of a list of games or of id-map entries, in order
IdsOf(list) == [k \in DOMAIN list |-> list[k].id]

HasId(list, id) == \E k \in DOMAIN list : list[k].id = id

\* {item['id']: item for item in list}[id]: the last entry with the id wins
EntryOf(list, id) ==
    list[CHOOSE k \in DOMAIN list :
            /\ list[k].id = id
            /\ \A j \in DOMAIN list : list[j].id = id => j <= k]

\* id_map_dict.get(app_id)
ItadIdOf(idmap, id) == IF HasId(idmap, id) THEN EntryOf(idmap, id).itadId ELSE NoItadId

\* price and cut of the deal ITAD reports
ItadPrice(kind) == IF kind = "sale" THEN SalePrice ELSE RegularPrice

ItadCut(kind) ==
    IF kind = "sale" THEN ((RegularPrice - SalePrice) * 100) \div RegularPrice ELSE 0

\* final / 100 and initial / 100 under int(): the whole part
WholeUnits(minor) == minor \div MinorUnits

\* _extract_price_from_api, lines 307-350, for a price_overview that is
\* there (overview) or missing; NoPrice stands for None
ExtractPrice(is_free, overview, initial, final) ==
    IF is_free THEN [price |-> 0, salePrice |-> NoPrice]
    ELSE IF ~overview THEN [price |-> NoPrice, salePrice |-> NoPrice]
    ELSE IF final = 0 THEN [price |-> 0, salePrice |-> NoPrice]
    ELSE [price |-> IF initial > 0 THEN WholeUnits(initial) ELSE WholeUnits(final),
          salePrice |-> IF initial > final /\ final > 0
                        THEN WholeUnits(final) ELSE NoPrice]

\* the deal constructed from the Storefront prices, lines 569-590, 766-787
\* and 1034-1053: int() drops the fraction of the percentage
SynthesizedDeal(regular_price, sale_price) ==
    IF sale_price # NoPrice /\ sale_price < regular_price
    THEN [price |-> sale_price, regular |-> regular_price,
          cut |-> IF regular_price > 0
                  THEN ((regular_price - sale_price) * 100) \div regular_price
                  ELSE 0]
    ELSE [price |-> regular_price, regular |-> regular_price, cut |-> 0]

\* a current price that does not look at salePrice
SteamCurrentRegular(onSale) == RegularPrice

\* steam_current of Phase 1.5: salePrice if there is one, else price
SteamCurrent(onSale) == IF onSale THEN SalePrice ELSE RegularPrice

\* the cut of a deal constructed from the Steam prices
SteamCut(onSale) ==
    SynthesizedDeal(RegularPrice, IF onSale THEN SalePrice ELSE NoPrice).cut

\* the record _build_game_data_from_steam returns: the ITAD deal when there
\* is one with prices, else a deal constructed from the Steam prices
BuildGame(id, itadId, kind, onSale) ==
    IF itadId # NoItadId /\ kind \in {"full", "sale"}
    THEN [id |-> id, price |-> ItadPrice(kind), cut |-> ItadCut(kind),
          noItadData |-> FALSE]
    ELSE [id |-> id, price |-> SteamCurrent(onSale), cut |-> SteamCut(onSale),
          noItadData |-> TRUE]

\* where Phase 1 of the differential refresh puts an id of the id-map
Classify(id, idmap, existing, deals) ==
    IF ~HasId(existing, id) THEN "skip"
    ELSE LET game == EntryOf(existing, id)
             itadId == ItadIdOf(idmap, id)
         IN  IF game.noItadData THEN "steam"
             ELSE IF itadId = NoItadId THEN "update"
             ELSE IF deals[itadId] \in {"none", "dash"} THEN "update"
             ELSE IF ItadPrice(deals[itadId]) # game.price
                     \/ ItadCut(deals[itadId]) # game.cut THEN "update"
             ELSE "nochange"

\* the ids Phase 1 puts in one of its lists, in id-map order
Phase1(class, idmap, existing, deals) ==
    SelectSeq(IdsOf(idmap), LAMBDA id : Classify(id, idmap, existing, deals) = class)

\* every itad id of the id-map, whatever the record carries
ItadEnabledAll(idmap, existing) ==
    {e.itadId : e \in {x \in Range(idmap) : x.itadId # NoItadId}}

\* itad_enabled_ids, line 413
ItadEnabled(idmap, existing) ==
    {e.itadId : e \in {x \in Range(idmap) :
        /\ x.itadId # NoItadId
        /\ ~(HasId(existing, x.id) /\ EntryOf(existing, x.id).noItadData)}}

\* the existing records of a list of ids
Copies(ids, existing) == [k \in DOMAIN ids |-> EntryOf(existing, ids[k])]

\* final_games of the append run: the existing games, then the new games
\* whose id is not among them
Merged(existing, new) ==
    existing \o SelectSeq(new, LAMBDA g : ~HasId(existing, g.id))

\* the games of all checkpoint files, in the order of their numbers
RECURSIVE CheckpointGames(_, _)
CheckpointGames(files, numbers) ==
    IF numbers = {} THEN <<>>
    ELSE LET n == CHOOSE x \in numbers : \A y \in numbers : x <= y
         IN  files[n] \o CheckpointGames(files, numbers \ {n})

\* latest_checkpoint, 0 when there is no checkpoint file
LatestCheckpoint(files) ==
    IF DOMAIN files = {} THEN 0
    ELSE CHOOSE x \in DOMAIN files : \A y \in DOMAIN files : y <= x

\* new_ids[latest_checkpoint:]
DropFirst(s, n) == IF n >= Len(s) THEN <<>> ELSE SubSeq(s, n + 1, Len(s))

\* the upstream holds what the record was built from
UpstreamMatches(game, idmap) ==
    IF game.noItadData
    THEN game.price = SteamCurrent(steamSale[game.id])
    ELSE /\ ItadIdOf(idmap, game.id) # NoItadId
         /\ itadDeal[ItadIdOf(idmap, game.id)] \in {"full", "sale"}
         /\ game.price = ItadPrice(itadDeal[ItadIdOf(idmap, game.id)])
         /\ game.cut = ItadCut(itadDeal[ItadIdOf(idmap, game.id)])

\* what a read of a persisted key returns: the empty list when it fails
ReadKey(stored, ok) == IF ok THEN stored ELSE <<>>

\* the entries of mapping_result.txt that build_id_map_from_titles puts back
\* into the id-map, lines 158-167, taken as all of the file
RestoredAll(file, idmap) == file

\* the entries of mapping_result.txt that build_id_map_from_titles puts back
\* into the id-map, lines 158-167: those whose id it does not hold
Restored(file, idmap) == SelectSeq(file, LAMBDA e : ~HasId(idmap, e.id))

\* a resolver that records its decisions in the file only
ResolvedIdMapForgets(known, mapped) == known

\* the id-map the resolver returns, lines 296-300: every accepted title is
\* appended to it
ResolvedIdMap(known, mapped) == known \o mapped

\* the first n ids of a set, in ascending order
RECURSIVE FirstIds(_, _)
FirstIds(S, n) ==
    IF n = 0 \/ S = {} THEN <<>>
    ELSE LET a == CHOOSE x \in S : \A y \in S : x <= y
         IN  <<a>> \o FirstIds(S \ {a}, n - 1)

\* [x for x in list if x.get('id') not in delete_appids], main.py 295 and 300
Without(list, ids) == SelectSeq(list, LAMBDA x : x.id \notin ids)

\* the Storefront requests of a build run, by endpoint
NoRequests == [details |-> 0, pages |-> 0, reviews |-> 0, extra |-> 0]

\* the requests of one call of get_game_info_from_api: the Details request
\* of the first region, then, when it returned data, the store page, the
\* reviews and one Details request for every further region
StorefrontRequests(ok, regions) ==
    [details |-> 1,
     pages |-> IF ok THEN 1 ELSE 0,
     reviews |-> IF ok THEN 1 ELSE 0,
     extra |-> IF ok THEN regions - 1 ELSE 0]

\* the requests so far and those of one more call
Issued(c, ok, regions) ==
    [k \in DOMAIN c |-> c[k] + StorefrontRequests(ok, regions)[k]]

\* no file created under data/backups
NoBackup == [made |-> FALSE, games |-> <<>>]

\* main.py, lines 200-206, in local mode: games.json as it is when line 206
\* copies it, that is after put_games_data of line 197 has rewritten it
\* (kv_helper.py, lines 254-258)
BackupFile(before, written) == [made |-> TRUE, games |-> written]

\* the locals of a build run before it starts
IdleRun ==
    [mode |-> "idle", kind |-> "none", id_map |-> <<>>, existing_games |-> <<>>,
     deals |-> [a \in AppIds |-> "none"], queue |-> <<>>,
     games_to_update |-> <<>>, games_no_change |-> <<>>, rebuilt_games |-> <<>>,
     failed_games |-> <<>>, i |-> 0, start_index |-> 0,
     wrote_id_map |-> FALSE, wrote_games |-> FALSE,
     unchanged |-> FALSE, env_changed |-> FALSE,
     asked |-> {}, new_ids |-> <<>>, batch |-> FALSE, read_failed |-> FALSE,
     resumed |-> FALSE, requests |-> NoRequests, backup |-> NoBackup]

\* no catalog and no run: the pipeline of Parts A and B
PipeEmpty ==
    /\ kvIdMap = <<>>
    /\ kvGames = <<>>
    /\ mappingFile = <<>>
    /\ checkpoints = <<>>
    /\ lockFile = FALSE
    /\ itadDeal = [a \in AppIds |-> "none"]
    /\ steamSale = [a \in AppIds |-> FALSE]
    /\ run = IdleRun
    /\ pipeFaults = 0
    /\ changes = 0
    /\ runs = 0

\* a persisted catalog: every game at its regular price, with or without
\* ITAD data, and an upstream that agrees with it.  App ids are alike, so
\* the catalog holds the ids 1..n in this order
PipeInit ==
    \E n \in 0..InitialGames, noItad \in [AppIds -> BOOLEAN] :
        /\ \A a \in AppIds : noItad[a] => a <= n
        /\ kvIdMap = [k \in 1..n |->
                        [id |-> k, itadId |-> IF noItad[k] THEN NoItadId ELSE k]]
        /\ kvGames = [k \in 1..n |->
                        [id |-> k, price |-> RegularPrice, cut |-> 0,
                         noItadData |-> noItad[k]]]
        /\ itadDeal = [a \in AppIds |-> IF noItad[a] THEN "none" ELSE "full"]
        /\ steamSale = [a \in AppIds |-> FALSE]
        /\ mappingFile = <<>>
        /\ checkpoints = <<>>
        /\ lockFile = FALSE
        /\ run = IdleRun
        /\ pipeFaults = 0
        /\ changes = 0
        /\ runs = 0

\* --------------------------------------------- Parts D and E: operators
\* the largest score of a non-empty list
RECURSIVE TopScore(_)
TopScore(scores) ==
    IF Len(scores) = 1 THEN scores[1]
    ELSE Max(scores[1], TopScore(Tail(scores)))

\* find_best_match, lines 76-126, on the scores of the entries that are not
\* excluded, and what build_id_map_from_titles does with its result, lines
\* 250-274: added says that the line goes on to the id-map
FindBestMatch(scores) ==
    LET candidates == SelectSeq(scores, LAMBDA x : x >= ScoreCandidateThreshold)
        exact_matches == SelectSeq(candidates, LAMBDA x : x = ScoreExactMatch)
    IN  IF candidates = <<>>
        THEN [outcome |-> "none", score |-> 0, added |-> FALSE]
        ELSE IF Len(exact_matches) > 1
        THEN [outcome |-> "multiple", score |-> ScoreExactMatch, added |-> FALSE]
        ELSE [outcome |-> "match", score |-> TopScore(candidates), added |-> TRUE]

\* the scores a title gets against the entries of the app list
Scores == {ScoreCandidateThreshold - 1, ScoreCandidateThreshold,
           ScoreAutoAcceptThreshold - 1, ScoreAutoAcceptThreshold, ScoreExactMatch}

\* the lists of at most n scores
RECURSIVE ScoreLists(_)
ScoreLists(n) ==
    IF n = 0 THEN {<<>>}
    ELSE ScoreLists(n - 1)
         \cup {Append(l, x) : l \in {m \in ScoreLists(n - 1) : Len(m) = n - 1},
                              x \in Scores}

NoCalc == [op |-> "none"]

NoFetch == [regions |-> 0, details |-> "idle", page |-> "idle",
            review |-> "idle", extra |-> <<>>, result |-> "idle"]

AuxInit == calc = NoCalc /\ fetch = NoFetch

metricVars == <<success_times, error_times, rtt_samples, ewma_rtt, base_rtt,
                network_error_count, warmup_completed>>

bucketVars == <<tokens, last_token_update, sent_times, total_requests, grantsAt>>

backoffVars == <<http_429_count, http_403_count, backoff_multiplier,
                 last_backoff_time, current_concurrency,
                 last_concurrency_increase>>

\* ---------------------------------------------------------------- actions
\* the clock advances
Tick ==
    /\ UNCHANGED <<pipeVars, auxVars>>
    /\ Busy = {}
    /\ now < MaxTime
    /\ now' = now + 1
    /\ UNCHANGED <<bucketVars, metricVars, backoffVars, lock, semaphore,
                   semValue, pc, sem, wake, start, status, retryAfter, attempt>>

\* permit(), lines 164-171: pick the gate and enter it or queue on it
EnterPermit(t) ==
    /\ UNCHANGED <<pipeVars, auxVars>>
    /\ pc[t] = "idle"
    /\ CanRun(t)
    /\ \A u \in Tasks : pc[u] = "idle" => t <= u   \* idle tasks are alike: the lowest calls
    /\ sem' = [sem EXCEPT ![t] = PermitSemaphore]
    /\ IF semValue[PermitSemaphore] > 0
       THEN /\ semValue' = [semValue EXCEPT ![PermitSemaphore] = @ - 1]
            /\ pc' = [pc EXCEPT ![t] = "acquire"]
       ELSE /\ pc' = [pc EXCEPT ![t] = "sem_wait"]
            /\ UNCHANGED semValue
    /\ UNCHANGED <<now, bucketVars, metricVars, backoffVars, lock, semaphore,
                   wake, start, status, retryAfter, attempt>>

\* a slot of the gate the task queued on became free
SemGranted(t) ==
    /\ UNCHANGED <<pipeVars, auxVars>>
    /\ pc[t] = "sem_wait"
    /\ CanRun(t)
    /\ semValue[sem[t]] > 0
    /\ semValue' = [semValue EXCEPT ![sem[t]] = @ - 1]
    /\ pc' = [pc EXCEPT ![t] = "acquire"]
    /\ UNCHANGED <<now, bucketVars, metricVars, backoffVars, lock, semaphore,
                   sem, wake, start, status, retryAfter, attempt>>

\* one turn of the loop of acquire(), lines 112-153, under the lock
Acquire(t) ==
    /\ UNCHANGED <<pipeVars, auxVars>>
    /\ pc[t] = "acquire"
    /\ CanRun(t)
    /\ lock = NoTask
    /\ LET refilled == Refill(tokens, now - last_token_update, backoff_multiplier)
           window == EvictOld(sent_times, now - WindowSeconds)
       IN  /\ last_token_update' = now
           /\ IF CanProceed(refilled, window)
              THEN /\ tokens' = refilled - TokenScale
                   /\ total_requests' = total_requests + 1
                   /\ sent_times' = Append(window, now)
                   /\ grantsAt' = [grantsAt EXCEPT ![now] = @ + 1]
                   /\ start' = [start EXCEPT ![t] = now]
                   /\ pc' = [pc EXCEPT ![t] = "request"]
                   /\ UNCHANGED wake
              ELSE /\ tokens' = refilled
                   /\ sent_times' = window
                   /\ wake' = [wake EXCEPT ![t] =
                                 now + WaitTime(refilled, window, backoff_multiplier, now)]
                   /\ pc' = [pc EXCEPT ![t] = "sleeping"]
                   /\ UNCHANGED <<total_requests, grantsAt, start>>
    /\ UNCHANGED <<now, metricVars, backoffVars, lock, semaphore, semValue,
                   sem, status, retryAfter, attempt>>

\* the sleep of acquire() is over
WakeUp(t) ==
    /\ UNCHANGED <<pipeVars, auxVars>>
    /\ pc[t] = "sleeping"
    /\ CanRun(t)
    /\ now >= wake[t]
    /\ wake' = [wake EXCEPT ![t] = 0]
    /\ pc' = [pc EXCEPT ![t] = "acquire"]
    /\ UNCHANGED <<now, bucketVars, metricVars, backoffVars, lock, semaphore,
                   semValue, sem, start, status, retryAfter, attempt>>

\* a scope that takes a 429, 403 or 5xx response for a failure
ScopeExitByStatus(st) ==
    IF st \in {403, 429, 500} THEN "record_error" ELSE "record_success"

\* the exit of the permit() scope when the body got a response, lines
\* 176-179: session.get returns a response of any status without raising
\* (steam_client.py, lines 66-70), so the scope records a success
ScopeExit(st) == "record_success"

\* the request body returns a response (any status; no exception)
RespondWithin(t, budget) ==
    /\ UNCHANGED <<pipeVars, auxVars>>
    /\ pc[t] = "request"
    /\ CanRun(t)
    /\ \E st \in {200, 403, 429, 500}, ra \in {NoRetryAfter, 0, 1} :
          /\ st # 200 => Faults < budget
          /\ st # 429 => ra = NoRetryAfter
          /\ status' = [status EXCEPT ![t] = st]
          /\ retryAfter' = [retryAfter EXCEPT ![t] = ra]
          /\ pc' = [pc EXCEPT ![t] = ScopeExit(st)]
    /\ UNCHANGED <<now, bucketVars, metricVars, backoffVars, lock, semaphore,
                   semValue, sem, wake, start, attempt>>

Respond(t) == RespondWithin(t, MaxFaults)

\* the request body raises: a connection failure (aiohttp.ClientError) or
\* the total timeout of the request (asyncio.TimeoutError)
RaiseWithin(t, budget) ==
    /\ UNCHANGED <<pipeVars, auxVars>>
    /\ pc[t] = "request"
    /\ CanRun(t)
    /\ Faults < budget
    /\ \E e \in {ClientError, TimeoutError} :
          status' = [status EXCEPT ![t] = e]
    /\ pc' = [pc EXCEPT ![t] = "record_error"]
    /\ UNCHANGED <<now, bucketVars, metricVars, backoffVars, lock, semaphore,
                   semValue, sem, wake, start, retryAfter, attempt>>

Raise(t) == RaiseWithin(t, MaxFaults)

\* wait_time of _request_with_retry: 2 ** (attempt + 1)
RetryWait(k) == 2 ^ (k + 1)

\* the handler "except aiohttp.ClientError" of _request_with_retry
Caught(e) == e = ClientError

\* where the call goes when attempt k has raised e: a caught exception is
\* retried after a sleep while attempts are left and ends the call with None
\* on the last attempt; any other exception leaves _request_with_retry
AfterError(e, k) ==
    IF ~Caught(e) THEN "raised"
    ELSE IF k < MaxRetries - 1 THEN "retry_wait"
    ELSE "failed"

\* where the client goes once the permit() scope is left on attempt k: a 403
\* or 429 is reported, raise_for_status() turns a 5xx into a ClientError
\* that the handler of the loop catches, any other response ends the call
AfterScope(st, k) ==
    IF st \in {403, 429} THEN "report"
    ELSE IF st >= 500 THEN AfterError(ClientError, k)
    ELSE "done"

\* the sleep and the next attempt of the handler, when the scope was left
\* for it
ScopeLeft(t) ==
    IF AfterScope(status[t], attempt[t]) = "retry_wait"
    THEN /\ wake' = [wake EXCEPT ![t] = now + RetryWait(attempt[t])]
         /\ attempt' = [attempt EXCEPT ![t] = @ + 1]
    ELSE UNCHANGED <<wake, attempt>>

\* _record_success, lines 185-214, with the head of
\* _evaluate_concurrency_adjustment, lines 278-285: the task takes the lock,
\* records the sample and, once warmup is completed, waits at line 285 for
\* the lock it is holding
RecordSuccess(t) ==
    /\ UNCHANGED <<pipeVars, auxVars>>
    /\ pc[t] = "record_success"
    /\ CanRun(t)
    /\ lock = NoTask
    /\ LET rtt == now - start[t]
           samples == Append(rtt_samples, rtt)
           completes == ~warmup_completed /\ Len(samples) >= WarmupRequests
           completed == warmup_completed \/ completes
           base == IF completes THEN BaseRtt(samples) ELSE base_rtt
       IN  /\ success_times' = Append(success_times, now)
           /\ rtt_samples' = IF Len(samples) > MaxRttSamples THEN Tail(samples) ELSE samples
           /\ ewma_rtt' = Ewma(ewma_rtt, rtt)
           /\ base_rtt' = base
           /\ warmup_completed' = completed
           /\ semaphore' = IF completes THEN semaphore + 1 ELSE semaphore
           /\ LET gates == IF completes
                           THEN [semValue EXCEPT ![semaphore + 1] = current_concurrency]
                           ELSE semValue
              IN  IF ~completed \/ base = 0
                  THEN \* the evaluation returns at once: lock and gate slot are released
                       /\ lock' = NoTask
                       /\ pc' = [pc EXCEPT ![t] =
                                   AfterScope(status[t], attempt[t])]
                       /\ ScopeLeft(t)
                       /\ semValue' = [gates EXCEPT ![sem[t]] = @ + 1]
                       /\ start' = [start EXCEPT ![t] = 0]
                  ELSE \* line 285: waits for the lock while holding it
                       /\ lock' = t
                       /\ pc' = [pc EXCEPT ![t] = "eval_lock"]
                       /\ semValue' = gates
                       /\ UNCHANGED <<start, wake, attempt>>
    /\ UNCHANGED <<now, bucketVars, error_times, network_error_count, backoffVars,
                   sem, status, retryAfter>>

\* _record_error, lines 216-221, the exit of the permit() scope and the
\* handler of _request_with_retry
RecordError(t) ==
    /\ UNCHANGED <<pipeVars, auxVars>>
    /\ pc[t] = "record_error"
    /\ CanRun(t)
    /\ lock = NoTask
    /\ error_times' = Append(error_times, now)
    /\ network_error_count' = network_error_count + 1
    /\ semValue' = [semValue EXCEPT ![sem[t]] = @ + 1]
    /\ pc' = [pc EXCEPT ![t] = AfterError(status[t], attempt[t])]
    /\ IF AfterError(status[t], attempt[t]) = "retry_wait"
       THEN /\ wake' = [wake EXCEPT ![t] = now + RetryWait(attempt[t])]
            /\ attempt' = [attempt EXCEPT ![t] = @ + 1]
       ELSE UNCHANGED <<wake, attempt>>
    /\ start' = [start EXCEPT ![t] = 0]
    /\ status' = [status EXCEPT ![t] = 0]
    /\ UNCHANGED <<now, bucketVars, success_times, rtt_samples, ewma_rtt, base_rtt,
                   warmup_completed, backoffVars, lock, semaphore, sem,
                   retryAfter>>

\* a report that puts every reporting task to sleep
AfterReportSleeps(st) == "backoff"

\* where the client is after the locked part of report_http_error: a 429
\* sleeps in the report, a 403 returns to the client, which returns None
AfterReport(st) == IF st = 429 THEN "backoff" ELSE "failed"

\* a report that puts the multiplier back when the status is not a 429
BackoffMultiplierReset(st, mult) == IF st = 429 THEN 2 ELSE 1

\* backoff_multiplier after a report, line 241: a 429 sets it to 2.0 and
\* nothing else assigns it
BackoffMultiplier(st, mult) == IF st = 429 THEN 2 ELSE mult

\* report_http_error, lines 223-267
ReportHttpError(t) ==
    /\ UNCHANGED <<pipeVars, auxVars>>
    /\ pc[t] = "report"
    /\ CanRun(t)
    /\ lock = NoTask
    /\ IF status[t] = 429
       THEN /\ http_429_count' = http_429_count + 1
            /\ current_concurrency' = HalvedConcurrency(current_concurrency)
            /\ last_backoff_time' = now
            /\ backoff_multiplier' =
                  BackoffMultiplier(status[t], backoff_multiplier)
            /\ semaphore' = semaphore + 1
            /\ semValue' = [semValue EXCEPT ![semaphore + 1] =
                              HalvedConcurrency(current_concurrency)]
            /\ UNCHANGED http_403_count
       ELSE /\ http_403_count' = http_403_count + 1
            /\ backoff_multiplier' =
                  BackoffMultiplier(status[t], backoff_multiplier)
            /\ UNCHANGED <<http_429_count, current_concurrency, last_backoff_time,
                           semaphore, semValue>>
    /\ IF AfterReport(status[t]) = "backoff"
       THEN IF retryAfter[t] > 0
            THEN wake' = [wake EXCEPT ![t] = now + retryAfter[t]]
            ELSE \E jitter \in 0..(BaseBackoff(http_429_count') \div 10) :
                    wake' = [wake EXCEPT ![t] =
                               now + BaseBackoff(http_429_count') + jitter]
       ELSE UNCHANGED wake
    /\ pc' = [pc EXCEPT ![t] = AfterReport(status[t])]
    /\ status' = [status EXCEPT ![t] = 0]
    /\ retryAfter' = [retryAfter EXCEPT ![t] =
                        IF AfterReport(status[t]) = "backoff" THEN @ ELSE NoRetryAfter]
    /\ UNCHANGED <<now, bucketVars, metricVars, last_concurrency_increase, lock,
                   sem, start, attempt>>

\* the sleep of report_http_error is over: the client retries after its own
\* wait, max(2 ** (attempt + 1), retry_after), or returns None on the last
\* attempt
BackoffDone(t) ==
    /\ UNCHANGED <<pipeVars, auxVars>>
    /\ pc[t] = "backoff"
    /\ CanRun(t)
    /\ now >= wake[t]
    /\ IF attempt[t] < MaxRetries - 1
       THEN /\ wake' = [wake EXCEPT ![t] =
                          now + Max(RetryWait(attempt[t]),
                                    IF retryAfter[t] > 0 THEN retryAfter[t] ELSE 0)]
            /\ attempt' = [attempt EXCEPT ![t] = @ + 1]
            /\ pc' = [pc EXCEPT ![t] = "retry_wait"]
       ELSE /\ wake' = [wake EXCEPT ![t] = 0]
            /\ pc' = [pc EXCEPT ![t] = "failed"]
            /\ UNCHANGED attempt
    /\ retryAfter' = [retryAfter EXCEPT ![t] = NoRetryAfter]
    /\ UNCHANGED <<now, bucketVars, metricVars, backoffVars, lock, semaphore,
                   semValue, sem, start, status>>

\* the sleep between two attempts is over: the loop goes to its next turn
RetryDone(t) ==
    /\ UNCHANGED <<pipeVars, auxVars>>
    /\ pc[t] = "retry_wait"
    /\ CanRun(t)
    /\ now >= wake[t]
    /\ wake' = [wake EXCEPT ![t] = 0]
    /\ pc' = [pc EXCEPT ![t] = "idle"]
    /\ UNCHANGED <<now, bucketVars, metricVars, backoffVars, lock, semaphore,
                   semValue, sem, start, status, retryAfter, attempt>>

TaskStep(t) ==
    \/ EnterPermit(t)
    \/ SemGranted(t)
    \/ Acquire(t)
    \/ WakeUp(t)
    \/ Respond(t)
    \/ Raise(t)
    \/ RecordSuccess(t)
    \/ RecordError(t)
    \/ ReportHttpError(t)
    \/ BackoffDone(t)
    \/ RetryDone(t)

Next == Tick \/ \E t \in Tasks : TaskStep(t)

Init == RCInit /\ PipeEmpty /\ AuxInit

Spec == Init /\ [][Next]_vars

\* ------------------------------------------- Part B: concurrency adjustment
\* window_usage_rate <= pct / 100
UsageAtMost(window, pct) == Len(window) * 100 <= pct * WindowLimit

\* window_usage_rate >= pct / 100
UsageAtLeast(window, pct) == Len(window) * 100 >= pct * WindowLimit

\* p95_rtt, lines 291-296, in milliseconds
P95Rtt(samples, ewma) ==
    IF Len(samples) >= P95MinSamples
    THEN Sorted(samples)[((Len(samples) * 95) \div 100) + 1] * 1000
    ELSE ewma

\* p95_rtt <= base_rtt * pct / 100 (base in tenths of a second)
RttAtMost(p95, base, pct) == p95 <= base * pct

\* p95_rtt >= base_rtt * pct / 100
RttAtLeast(p95, base, pct) == p95 >= base * pct

\* safety_margin, lines 299-304, in halves
SafetyMargin(window, p95, base) ==
    IF UsageAtMost(window, 70) /\ RttAtMost(p95, base, 120) THEN 0
    ELSE IF ~UsageAtMost(window, 90) \/ ~RttAtMost(p95, base, 150) THEN 2
    ELSE 1

\* recommended, lines 307-308: int() drops the half of the standard margin
Recommended(ewma, margin) ==
    Max(1, Min(MaxConcurrency, CeilDiv(TargetRps * ewma, 1000) + margin \div 2))

\* entries of a deque of timestamps that are not older than t0
CountSince(times, t0) == Len(SelectSeq(times, LAMBDA x : x >= t0))

\* recent_2min_429, line 329 (HostMetrics has no http_429_times)
Recent2Min429(t) ==
    IF t - last_backoff_time < TwoMinutes THEN http_429_count ELSE 0

\* errors / max(1, successes + errors) < permille / 1000
ErrorFractionBelow(errors, successes, permille) ==
    errors * 1000 < permille * Max(1, successes + errors)

\* an evaluation without the cooldown between increases
CanIncreaseAlways(t) == TRUE

\* can_increase, line 321
CanIncrease(t) == t - last_concurrency_increase >= IncreaseCooldown

\* increase_condition_1 or _2 or _3, lines 332-351
IncreaseCondition(window, samples, ewma, base, successes, errors, t) ==
    LET p95 == P95Rtt(samples, ewma)
        recommended == Recommended(ewma, SafetyMargin(window, p95, base))
    IN  \/ /\ CanIncrease(t)
           /\ Recent2Min429(t) = 0
           /\ CountSince(successes, t - TwoMinutes) > 0
           /\ CountSince(errors, t - TwoMinutes) = 0
           /\ UsageAtMost(window, 80)
           /\ RttAtMost(p95, base, 110)
        \/ /\ CanIncrease(t)
           /\ CountSince(successes, t - FiveMinutes) > 0
           /\ UsageAtMost(window, 85)
           /\ ErrorFractionBelow(CountSince(errors, t - FiveMinutes),
                                 CountSince(successes, t - FiveMinutes), 5)
        \/ /\ CanIncrease(t)
           /\ current_concurrency < recommended - 1

\* decrease_condition_1 or _2, lines 354-362
DecreaseCondition(window, samples, ewma, base, successes, errors, t) ==
    LET p95 == P95Rtt(samples, ewma)
    IN  \/ /\ UsageAtLeast(window, 95)
           /\ RttAtLeast(p95, base, 130)
        \/ /\ CountSince(successes, t - FiveMinutes) > 0
           /\ ~ErrorFractionBelow(CountSince(errors, t - FiveMinutes),
                                  CountSince(successes, t - FiveMinutes), 10)

\* the clock of Part B advances
AdjustTick ==
    /\ UNCHANGED <<pipeVars, auxVars>>
    /\ Busy = {}
    /\ now + AdjustStep <= MaxAdjustTime
    /\ now' = now + AdjustStep
    /\ UNCHANGED <<bucketVars, metricVars, backoffVars, lock, semaphore,
                   semValue, pc, sem, wake, start, status, retryAfter, attempt>>

\* the client starts its next request
AdjustEnter ==
    /\ total_requests < MaxAdjustRequests
    /\ EnterPermit(Client)

\* the client calls _request_with_retry again
NextCall ==
    /\ UNCHANGED <<pipeVars, auxVars>>
    /\ pc[Client] \in {"done", "failed", "raised"}
    /\ pc' = [pc EXCEPT ![Client] = "idle"]
    /\ attempt' = [attempt EXCEPT ![Client] = 0]
    /\ UNCHANGED <<now, bucketVars, metricVars, backoffVars, lock, semaphore,
                   semValue, sem, wake, start, status, retryAfter>>

\* _record_success, lines 185-214, followed by the body of
\* _evaluate_concurrency_adjustment, lines 278-378, and the exit of the
\* permit() scope
RecordSuccessAdjust(t) ==
    /\ UNCHANGED <<pipeVars, auxVars>>
    /\ pc[t] = "record_success"
    /\ CanRun(t)
    /\ lock = NoTask
    /\ LET rtt == now - start[t]
           samples == Append(rtt_samples, rtt)
           kept == IF Len(samples) > MaxRttSamples THEN Tail(samples) ELSE samples
           completes == ~warmup_completed /\ Len(samples) >= WarmupRequests
           completed == warmup_completed \/ completes
           base == IF completes THEN BaseRtt(samples) ELSE base_rtt
           ewma == Ewma(ewma_rtt, rtt)
           successes == Append(success_times, now)
           evaluates == completed /\ base # 0
           window == EvictOld(sent_times, now - WindowSeconds)
           increase == evaluates /\ IncreaseCondition(window, kept, ewma, base,
                                                      successes, error_times, now)
           decrease == evaluates /\ ~increase
                       /\ DecreaseCondition(window, kept, ewma, base,
                                            successes, error_times, now)
           concurrency == IF increase THEN Min(MaxConcurrency, current_concurrency + 1)
                          ELSE IF decrease THEN Max(1, current_concurrency - 1)
                          ELSE current_concurrency
           warmGate == IF completes THEN semaphore + 1 ELSE semaphore
           gate == IF increase \/ decrease THEN warmGate + 1 ELSE warmGate
           warmGates == IF completes
                        THEN [semValue EXCEPT ![warmGate] = current_concurrency]
                        ELSE semValue
           gates == IF increase \/ decrease
                    THEN [warmGates EXCEPT ![gate] = concurrency]
                    ELSE warmGates
       IN  /\ success_times' = successes
           /\ rtt_samples' = kept
           /\ ewma_rtt' = ewma
           /\ base_rtt' = base
           /\ warmup_completed' = completed
           /\ sent_times' = IF evaluates THEN window ELSE sent_times
           /\ current_concurrency' = concurrency
           /\ last_concurrency_increase' =
                 IF increase THEN now ELSE last_concurrency_increase
           /\ semaphore' = gate
           /\ semValue' = [gates EXCEPT ![sem[t]] = @ + 1]
    /\ lock' = NoTask
    /\ pc' = [pc EXCEPT ![t] = AfterScope(status[t], attempt[t])]
    /\ ScopeLeft(t)
    /\ start' = [start EXCEPT ![t] = 0]
    /\ UNCHANGED <<now, tokens, last_token_update, total_requests, grantsAt,
                   error_times, network_error_count, http_429_count,
                   http_403_count, backoff_multiplier, last_backoff_time,
                   sem, status, retryAfter>>

AdjustNext ==
    \/ AdjustTick
    \/ AdjustEnter
    \/ NextCall
    \/ Acquire(Client)
    \/ WakeUp(Client)
    \/ RespondWithin(Client, MaxAdjustFaults)
    \/ RaiseWithin(Client, MaxAdjustFaults)
    \/ RecordSuccessAdjust(Client)
    \/ RecordError(Client)
    \/ ReportHttpError(Client)
    \/ BackoffDone(Client)
    \/ RetryDone(Client)

SpecAdjust == Init /\ [][AdjustNext]_vars

\* ----------------------------------------------------- Part C: build runs
RunEnded == run.mode \in {"idle", "done", "aborted"}

\* an upstream call that may fail: a failure takes one unit of the budget
MayFail(ok) == ~ok => pipeFaults < MaxPipeFaults

\* what get_batch_deals returns for the itad ids asked: nothing when it fails
BatchDeals(asked, ok) ==
    [a \in AppIds |-> IF ok /\ a \in asked THEN itadDeal[a] ELSE "none"]

\* a run that does not look at the number of deals returned
FetchedNothingIgnored(asked, deals) == FALSE

\* the batch fetch was made and returned 0 deals: the run raises
FetchedNothing(asked, deals) ==
    asked # {} /\ \A a \in asked : deals[a] = "none"

\* Phase 2 starts: the unchanged games are copied from the catalog
EnterPhase2(r) ==
    [r EXCEPT !.rebuilt_games = Copies(r.games_no_change, r.existing_games),
              !.mode = IF r.games_to_update = <<>> THEN "save" ELSE "phase2"]

\* Phase 1.5 runs when a game carries the noItadData flag
AfterPhase1(r) ==
    IF r.queue # <<>> THEN [r EXCEPT !.mode = "phase15"] ELSE EnterPhase2(r)

\* _rebuild_differential_update, lines 391-486: the reads, the batch fetch
\* and Phase 1
StartDiff ==
    /\ RunEnded
    /\ runs < MaxRuns
    /\ runs' = runs + 1
    /\ \E ok \in BOOLEAN, idOk \in BOOLEAN, gamesOk \in BOOLEAN :
        LET id_map == ReadKey(kvIdMap, idOk)
            existing_games == ReadKey(kvGames, gamesOk)
            enabled == ItadEnabled(id_map, existing_games)
            deals == BatchDeals(enabled, ok)
            failures == (IF ok THEN 0 ELSE 1) + (IF idOk THEN 0 ELSE 1)
                        + (IF gamesOk THEN 0 ELSE 1)
            base == [IdleRun EXCEPT
                       !.kind = "diff", !.id_map = id_map,
                       !.existing_games = existing_games, !.deals = deals,
                       !.asked = enabled,
                       !.read_failed = ~idOk \/ ~gamesOk,
                       !.unchanged = \A g \in Range(kvGames) :
                                         UpstreamMatches(g, kvIdMap)]
        IN  /\ pipeFaults + failures <= MaxPipeFaults
            /\ ~ok => enabled # {}
            /\ ~idOk => kvIdMap # <<>>
            /\ ~gamesOk => kvGames # <<>>
            /\ pipeFaults' = pipeFaults + failures
            /\ run' = IF FetchedNothing(enabled, deals)
                      THEN [base EXCEPT !.mode = "aborted"]
                      ELSE AfterPhase1(
                             [base EXCEPT
                                !.games_to_update =
                                    Phase1("update", id_map, existing_games, deals),
                                !.games_no_change =
                                    Phase1("nochange", id_map, existing_games, deals),
                                !.queue = Phase1("steam", id_map, existing_games, deals)])
    /\ UNCHANGED <<kvIdMap, kvGames, mappingFile, checkpoints, lockFile,
                   itadDeal, steamSale, changes>>
    /\ UNCHANGED <<rcVars, auxVars>>

\* Phase 1.5, lines 491-518: one game that carries the noItadData flag
DiffCompareSteam ==
    /\ run.mode = "phase15"
    /\ \E ok \in BOOLEAN :
        LET id == Head(run.queue)
            differs == ok /\ SteamCurrent(steamSale[id])
                               # EntryOf(run.existing_games, id).price
            r == [run EXCEPT
                    !.queue = Tail(run.queue),
                    !.requests = Issued(@, ok, DiffRegions),
                    !.games_to_update =
                        IF differs THEN Append(@, id) ELSE @,
                    !.games_no_change =
                        IF differs THEN @ ELSE Append(@, id)]
        IN  /\ MayFail(ok)
            /\ pipeFaults' = IF ok THEN pipeFaults ELSE pipeFaults + 1
            /\ run' = AfterPhase1(r)
    /\ UNCHANGED <<kvIdMap, kvGames, mappingFile, checkpoints, lockFile,
                   itadDeal, steamSale, changes>>
    /\ UNCHANGED <<runs, rcVars, auxVars>>

\* the deal Phase 1 cached for a game, none without an itad id
CachedDeal(r, id) ==
    IF ItadIdOf(r.id_map, id) = NoItadId THEN "none"
    ELSE r.deals[ItadIdOf(r.id_map, id)]

\* Phase 2, lines 541-633: one game of games_to_update
DiffUpdateGame ==
    /\ run.mode = "phase2"
    /\ \E ok \in BOOLEAN :
        LET id == Head(run.games_to_update)
            game == BuildGame(id, ItadIdOf(run.id_map, id), CachedDeal(run, id),
                              steamSale[id])
            rest == Tail(run.games_to_update)
        IN  /\ MayFail(ok)
            /\ pipeFaults' = IF ok THEN pipeFaults ELSE pipeFaults + 1
            /\ run' = [run EXCEPT
                         !.games_to_update = rest,
                         !.requests = Issued(@, ok, DiffRegions),
                         !.rebuilt_games = IF ok THEN Append(@, game) ELSE @,
                         !.failed_games = IF ok THEN @ ELSE Append(@, id),
                         !.mode = IF rest = <<>> THEN "save" ELSE "phase2"]
    /\ UNCHANGED <<kvIdMap, kvGames, mappingFile, checkpoints, lockFile,
                   itadDeal, steamSale, changes>>
    /\ UNCHANGED <<runs, rcVars, auxVars>>

\* the itad ids of a list of new app ids
NewItadIds(idmap, ids) ==
    {ItadIdOf(idmap, a) : a \in {x \in Range(ids) : ItadIdOf(idmap, x) # NoItadId}}

\* the end of _process_normal_mode, lines 852-873
FinishNormal(r) ==
    [r EXCEPT !.rebuilt_games = Merged(r.existing_games, r.rebuilt_games),
              !.mode = "save"]

\* the end of _process_batch_mode, lines 1105-1146
FinishBatch(r, files) ==
    [r EXCEPT !.rebuilt_games =
                  Merged(r.existing_games,
                         CheckpointGames(files, DOMAIN files) \o r.rebuilt_games),
              !.mode = "save"]

\* _rebuild_new_only, lines 664-699, with the start of the sub-mode it picks:
\* lines 704-733 of _process_normal_mode or 898-1010 of _process_batch_mode.
\* App ids the resolver has not seen are alike: the new titles resolve to
\* the lowest of them, in ascending order.  When the read of id-map failed
\* the title file may or may not hold the titles of the persisted ids
StartAppend ==
    /\ RunEnded
    /\ runs < MaxRuns
    /\ runs' = runs + 1
    /\ \E listOk \in BOOLEAN, itadOk \in BOOLEAN, idOk \in BOOLEAN,
          gamesOk \in BOOLEAN :
       \E pool \in {AppIds \ Range(IdsOf(ReadKey(kvIdMap, idOk) \o mappingFile)),
                    AppIds \ Range(IdsOf(kvIdMap \o mappingFile))} :
       \E n \in 0..Cardinality(pool) :
       \E withItad \in SUBSET Range(FirstIds(pool, n)) :
        LET read_id_map == ReadKey(kvIdMap, idOk)
            known == read_id_map \o Restored(mappingFile, read_id_map)
            new_ids == FirstIds(pool, n)
            mapped == [k \in DOMAIN new_ids |->
                         [id |-> new_ids[k],
                          itadId |-> IF new_ids[k] \in withItad
                                     THEN new_ids[k] ELSE NoItadId]]
            id_map == ResolvedIdMap(known, mapped)
            existing_games == ReadKey(kvGames, gamesOk)
            batch == Len(new_ids) >= BatchThreshold
            latest == LatestCheckpoint(checkpoints)
            target_ids == IF batch THEN DropFirst(new_ids, latest) ELSE new_ids
            asked == NewItadIds(id_map, target_ids)
            deals == BatchDeals(asked, itadOk)
            base == [IdleRun EXCEPT
                       !.kind = "append", !.id_map = id_map,
                       !.existing_games = existing_games, !.deals = deals,
                       !.queue = target_ids,
                       !.start_index = IF batch THEN latest ELSE 0,
                       !.asked = asked, !.new_ids = new_ids, !.batch = batch,
                       !.resumed = lockFile /\ DOMAIN checkpoints # {},
                       !.read_failed = ~idOk \/ ~gamesOk]
            failures == (IF listOk THEN 0 ELSE 1) + (IF itadOk THEN 0 ELSE 1)
                        + (IF idOk THEN 0 ELSE 1) + (IF gamesOk THEN 0 ELSE 1)
        IN  /\ pipeFaults + failures <= MaxPipeFaults
            /\ ~listOk => n = 0
            /\ ~idOk => kvIdMap # <<>>
            /\ ~gamesOk => kvGames # <<>>
            /\ ~itadOk => asked # {}
            /\ pipeFaults' = pipeFaults + failures
            /\ mappingFile' = mappingFile \o mapped
            /\ lockFile' = (lockFile \/ batch)
            /\ run' =
                 IF batch /\ target_ids = <<>>
                 THEN [base EXCEPT !.rebuilt_games = existing_games, !.mode = "save"]
                 ELSE IF FetchedNothing(asked, deals)
                 THEN [base EXCEPT !.mode = "aborted"]
                 ELSE IF batch THEN [base EXCEPT !.mode = "batch"]
                 ELSE IF target_ids = <<>> THEN FinishNormal(base)
                 ELSE [base EXCEPT !.mode = "normal"]
    /\ UNCHANGED <<kvIdMap, kvGames, checkpoints, itadDeal, steamSale, changes>>
    /\ UNCHANGED <<rcVars, auxVars>>

\* the loop of _process_normal_mode, lines 736-850: one new id.  Line 845
\* reads the name itad_deal, which the function never binds: a game that has
\* an itad id and whose Steam data was fetched ends the run with a NameError
AppendNormalGame ==
    /\ run.mode = "normal"
    /\ \E ok \in BOOLEAN :
        LET id == Head(run.queue)
            itadId == ItadIdOf(run.id_map, id)
            game == BuildGame(id, itadId, CachedDeal(run, id), steamSale[id])
            r == [run EXCEPT
                    !.queue = Tail(run.queue),
                    !.requests = Issued(@, ok, DiffRegions),
                    !.rebuilt_games = IF ok THEN Append(@, game) ELSE @,
                    !.failed_games = IF ok THEN @ ELSE Append(@, id)]
        IN  /\ MayFail(ok)
            /\ pipeFaults' = IF ok THEN pipeFaults ELSE pipeFaults + 1
            /\ run' = IF ok /\ itadId # NoItadId
                      THEN [run EXCEPT !.mode = "aborted", !.requests = r.requests]
                      ELSE IF r.queue = <<>> THEN FinishNormal(r) ELSE r
    /\ UNCHANGED <<kvIdMap, kvGames, mappingFile, checkpoints, lockFile,
                   itadDeal, steamSale, changes>>
    /\ UNCHANGED <<runs, rcVars, auxVars>>

\* the loop of _process_batch_mode, lines 1012-1103: one new id, with the
\* checkpoint it may complete; after the last id, the merge and the removal
\* of the lock file, lines 1105-1181
AppendBatchGame ==
    /\ run.mode = "batch"
    /\ \E ok \in BOOLEAN :
        LET id == Head(run.queue)
            game == BuildGame(id, ItadIdOf(run.id_map, id), CachedDeal(run, id),
                              steamSale[id])
            built == IF ok THEN Append(run.rebuilt_games, game)
                     ELSE run.rebuilt_games
            checkpoint_number == run.start_index + run.i + 1
            saves == ok /\ checkpoint_number % CheckpointInterval = 0
            files == IF saves
                     THEN [n \in DOMAIN checkpoints \cup {checkpoint_number} |->
                             IF n = checkpoint_number THEN built
                             ELSE checkpoints[n]]
                     ELSE checkpoints
            r == [run EXCEPT
                    !.queue = Tail(run.queue),
                    !.requests = Issued(@, ok, BatchRegions),
                    !.i = run.i + 1,
                    !.rebuilt_games = IF saves THEN <<>> ELSE built,
                    !.failed_games = IF ok THEN @ ELSE Append(@, id),
                    !.wrote_id_map = @ \/ saves]
            last == r.queue = <<>>
        IN  /\ MayFail(ok)
            /\ pipeFaults' = IF ok THEN pipeFaults ELSE pipeFaults + 1
            /\ checkpoints' = files
            /\ kvIdMap' = IF saves THEN run.id_map ELSE kvIdMap
            /\ lockFile' = (lockFile /\ ~last)
            /\ run' = IF last THEN FinishBatch(r, files) ELSE r
    /\ UNCHANGED <<kvGames, mappingFile, itadDeal, steamSale, changes>>
    /\ UNCHANGED <<runs, rcVars, auxVars>>

\* should_update of save_and_backup, line 187
ShouldUpdate(r) == Len(r.rebuilt_games) > 0 /\ Len(r.failed_games) = 0

\* save_and_backup, lines 187-252, when nothing is to be written
SkipSave ==
    /\ run.mode = "save"
    /\ ~ShouldUpdate(run)
    /\ run' = [run EXCEPT !.mode = "done"]
    /\ UNCHANGED <<kvIdMap, kvGames, mappingFile, checkpoints, lockFile,
                   itadDeal, steamSale, pipeFaults, changes>>
    /\ UNCHANGED <<runs, rcVars, auxVars>>

\* save_and_backup, line 192: put_id_map; a failed put raises and the
\* except clause of line 235 ends the save
PutIdMap ==
    /\ run.mode = "save"
    /\ ShouldUpdate(run)
    /\ \E ok \in BOOLEAN :
        /\ MayFail(ok)
        /\ pipeFaults' = IF ok THEN pipeFaults ELSE pipeFaults + 1
        /\ kvIdMap' = IF ok THEN run.id_map ELSE kvIdMap
        /\ run' = [run EXCEPT !.wrote_id_map = @ \/ ok,
                              !.mode = IF ok THEN "put_games" ELSE "done"]
    /\ UNCHANGED <<kvGames, mappingFile, checkpoints, lockFile, itadDeal,
                   steamSale, changes>>
    /\ UNCHANGED <<runs, rcVars, auxVars>>

\* save_and_backup, lines 197-206: put_games_data, and in local mode the
\* copy of games.json into data/backups
PutGamesData ==
    /\ run.mode = "put_games"
    /\ \E ok \in BOOLEAN :
        /\ MayFail(ok)
        /\ pipeFaults' = IF ok THEN pipeFaults ELSE pipeFaults + 1
        /\ kvGames' = IF ok THEN run.rebuilt_games ELSE kvGames
        /\ run' = [run EXCEPT !.wrote_games = @ \/ ok, !.mode = "done",
                              !.backup = IF ok
                                         THEN BackupFile(kvGames, kvGames')
                                         ELSE @]
    /\ UNCHANGED <<kvIdMap, mappingFile, checkpoints, lockFile, itadDeal,
                   steamSale, changes>>
    /\ UNCHANGED <<runs, rcVars, auxVars>>

\* the process is killed in the middle of a run
Crash ==
    /\ ~RunEnded
    /\ pipeFaults < MaxPipeFaults
    /\ pipeFaults' = pipeFaults + 1
    /\ run' = [run EXCEPT !.mode = "aborted"]
    /\ UNCHANGED <<kvIdMap, kvGames, mappingFile, checkpoints, lockFile,
                   itadDeal, steamSale, changes>>
    /\ UNCHANGED <<runs, rcVars, auxVars>>

\* upstream, the ITAD deal of a game changes, between two runs
ItadChange ==
    /\ RunEnded
    /\ changes < MaxChanges
    /\ \E a \in AppIds, kind \in DealKinds :
        /\ kind # itadDeal[a]
        /\ itadDeal' = [itadDeal EXCEPT ![a] = kind]
    /\ changes' = changes + 1
    /\ run' = [run EXCEPT !.env_changed = @ \/ ~RunEnded]
    /\ UNCHANGED <<kvIdMap, kvGames, mappingFile, checkpoints, lockFile,
                   steamSale, pipeFaults>>
    /\ UNCHANGED <<runs, rcVars, auxVars>>

\* upstream, a sale on Steam starts or ends, between two runs
SteamChange ==
    /\ RunEnded
    /\ changes < MaxChanges
    /\ \E a \in AppIds : steamSale' = [steamSale EXCEPT ![a] = ~@]
    /\ changes' = changes + 1
    /\ run' = [run EXCEPT !.env_changed = @ \/ ~RunEnded]
    /\ UNCHANGED <<kvIdMap, kvGames, mappingFile, checkpoints, lockFile,
                   itadDeal, pipeFaults>>
    /\ UNCHANGED <<runs, rcVars, auxVars>>

\* delete_games_command, lines 255-304: the list, the two reads, the two
\* filters and put_games_data; a failed put raises
DeleteGames ==
    /\ RunEnded
    /\ runs < MaxRuns
    /\ runs' = runs + 1
    /\ \E ok \in BOOLEAN, idOk \in BOOLEAN, gamesOk \in BOOLEAN :
       \E deleteList \in {d \in SUBSET AppIds :
                             d # {} /\ Cardinality(d) <= MaxDeleteList} :
        LET games_data == Without(ReadKey(kvGames, gamesOk), deleteList)
            id_map_data == Without(ReadKey(kvIdMap, idOk), deleteList)
            failures == (IF ok THEN 0 ELSE 1) + (IF idOk THEN 0 ELSE 1)
                        + (IF gamesOk THEN 0 ELSE 1)
        IN  /\ pipeFaults + failures <= MaxPipeFaults
            /\ ~idOk => kvIdMap # <<>>
            /\ ~gamesOk => kvGames # <<>>
            /\ pipeFaults' = pipeFaults + failures
            /\ kvGames' = IF ok THEN games_data ELSE kvGames
            /\ run' = [IdleRun EXCEPT
                         !.kind = "delete", !.id_map = id_map_data,
                         !.existing_games = ReadKey(kvGames, gamesOk),
                         !.rebuilt_games = games_data,
                         !.read_failed = ~idOk \/ ~gamesOk,
                         !.wrote_games = ok,
                         !.mode = IF ok THEN "delete_put_id_map" ELSE "aborted"]
    /\ UNCHANGED <<kvIdMap, mappingFile, checkpoints, lockFile, itadDeal,
                   steamSale, changes>>
    /\ UNCHANGED <<rcVars, auxVars>>

\* delete_games_command, line 305: put_id_map
DeletePutIdMap ==
    /\ run.mode = "delete_put_id_map"
    /\ \E ok \in BOOLEAN :
        /\ MayFail(ok)
        /\ pipeFaults' = IF ok THEN pipeFaults ELSE pipeFaults + 1
        /\ kvIdMap' = IF ok THEN run.id_map ELSE kvIdMap
        /\ run' = [run EXCEPT !.wrote_id_map = ok,
                              !.mode = IF ok THEN "done" ELSE "aborted"]
    /\ UNCHANGED <<kvGames, mappingFile, checkpoints, lockFile, itadDeal,
                   steamSale, changes>>
    /\ UNCHANGED <<runs, rcVars, auxVars>>

PipeNext ==
    \/ StartDiff
    \/ DiffCompareSteam
    \/ DiffUpdateGame
    \/ StartAppend
    \/ AppendNormalGame
    \/ AppendBatchGame
    \/ SkipSave
    \/ PutIdMap
    \/ PutGamesData
    \/ DeleteGames
    \/ DeletePutIdMap
    \/ Crash
    \/ ItadChange
    \/ SteamChange

InitPipe == RCInit /\ PipeInit /\ AuxInit

SpecPipe == InitPipe /\ [][PipeNext]_vars

\* ------------------------------------- Part D: calls of the pure functions
\* one call of _extract_price_from_api
CalcPrice ==
    /\ calc = NoCalc
    /\ \E is_free \in BOOLEAN, overview \in BOOLEAN,
          initial \in 0..MaxMinor, final \in 0..MaxMinor :
          /\ ~overview => initial = 0 /\ final = 0
          /\ calc' = [op |-> "price",
                      in |-> [is_free |-> is_free, overview |-> overview,
                              initial |-> initial, final |-> final],
                      out |-> ExtractPrice(is_free, overview, initial, final)]
    /\ UNCHANGED <<rcVars, pipeVars, fetch>>

\* one construction of a deal from Storefront prices
CalcDeal ==
    /\ calc = NoCalc
    /\ \E regular_price \in 0..MaxPrice, sale_price \in {NoPrice} \cup 0..MaxPrice :
          calc' = [op |-> "deal",
                   in |-> [regular |-> regular_price, sale |-> sale_price],
                   out |-> SynthesizedDeal(regular_price, sale_price)]
    /\ UNCHANGED <<rcVars, pipeVars, fetch>>

\* one call of find_best_match
CalcMatch ==
    /\ calc = NoCalc
    /\ \E scores \in ScoreLists(MaxCandidates) :
          calc' = [op |-> "match", in |-> scores, out |-> FindBestMatch(scores)]
    /\ UNCHANGED <<rcVars, pipeVars, fetch>>

\* the caller has taken the result
CalcReturn ==
    /\ calc # NoCalc
    /\ calc' = NoCalc
    /\ UNCHANGED <<rcVars, pipeVars, fetch>>

CalcNext == CalcPrice \/ CalcDeal \/ CalcMatch \/ CalcReturn

SpecCalc == Init /\ [][CalcNext]_vars

\* ------------------------------- Part E: one call of get_game_info_from_api
\* a call that goes on whatever the Details request returned
ProceedsAlways(outcome) == TRUE

\* lines 195-203: the call goes on to the further requests only when the
\* Details request returned a response whose success flag is set
Proceeds(outcome) == outcome = "ok"

\* the further requests of a call have all returned
Gathered(f) ==
    /\ f.page \in {"ok", "failed"}
    /\ f.review \in {"ok", "failed"}
    /\ \A k \in DOMAIN f.extra : f.extra[k] \in {"ok", "failed"}

\* get_game_info_from_api is called for an id, lines 186-193: the Details
\* request of the first region is issued
FetchStart ==
    /\ fetch.result # "pending"
    /\ \E n \in 1..MaxRegions :
          fetch' = [regions |-> n, details |-> "pending", page |-> "idle",
                    review |-> "idle", extra |-> [k \in 1..(n - 1) |-> "idle"],
                    result |-> "pending"]
    /\ UNCHANGED <<rcVars, pipeVars, calc>>

\* the Details request returns, lines 193-230: no response or an exception
\* ("failed"), success false ("unavailable"), or data ("ok"), after which
\* the store page, the reviews and the further regions are requested
\* together
DetailsDone ==
    /\ fetch.details = "pending"
    /\ \E outcome \in {"ok", "failed", "unavailable"} :
          fetch' = IF Proceeds(outcome)
                   THEN [fetch EXCEPT !.details = outcome,
                                      !.page = "pending",
                                      !.review = "pending",
                                      !.extra = [k \in DOMAIN @ |-> "pending"]]
                   ELSE [fetch EXCEPT !.details = outcome, !.result = "none"]
    /\ UNCHANGED <<rcVars, pipeVars, calc>>

\* _extract_image_url, lines 375-405: the store page request returns or fails
PageDone ==
    /\ fetch.page = "pending"
    /\ \E outcome \in {"ok", "failed"} : fetch' = [fetch EXCEPT !.page = outcome]
    /\ UNCHANGED <<rcVars, pipeVars, calc>>

\* _extract_review_score, lines 477-497: the reviews request returns or fails
ReviewDone ==
    /\ fetch.review = "pending"
    /\ \E outcome \in {"ok", "failed"} : fetch' = [fetch EXCEPT !.review = outcome]
    /\ UNCHANGED <<rcVars, pipeVars, calc>>

\* _get_region_price, lines 277-305: the Details request of a further
\* region returns or fails
ExtraDone ==
    /\ \E k \in DOMAIN fetch.extra, outcome \in {"ok", "failed"} :
          /\ fetch.extra[k] = "pending"
          /\ fetch' = [fetch EXCEPT !.extra[k] = outcome]
    /\ UNCHANGED <<rcVars, pipeVars, calc>>

\* lines 230-271: gather has all its results and the call returns the data
FetchReturn ==
    /\ fetch.result = "pending"
    /\ Gathered(fetch)
    /\ fetch' = [fetch EXCEPT !.result = "data"]
    /\ UNCHANGED <<rcVars, pipeVars, calc>>

FetchNext ==
    \/ FetchStart
    \/ DetailsDone
    \/ PageDone
    \/ ReviewDone
    \/ ExtraDone
    \/ FetchReturn

SpecFetch == Init /\ [][FetchNext]_vars

\* ------------------------------------------------------- rate controller claims
\* permits granted at the seconds a..b
RECURSIVE GrantsIn(_, _)
GrantsIn(a, b) == IF a > b THEN 0 ELSE grantsAt[a] + GrantsIn(a + 1, b)

WindowStart == Max(0, now - WindowSeconds)

\* C1: the number of send-timestamps of the last window_seconds never exceeds
\* window_limit, and every granted permit has its send-timestamp in sent_times
\* in the state that follows the grant
C1_WindowLimit ==
    /\ GrantsIn(WindowStart, now) <= WindowLimit
    /\ Len(SelectSeq(sent_times, LAMBDA ts : ts >= WindowStart))
         = GrantsIn(WindowStart, now)

\* C1 witness: the window is full, a token is there, and a task was turned away
C1_Witness ==
    /\ GrantsIn(WindowStart, now) = WindowLimit
    /\ tokens >= TokenScale
    /\ \E t \in Tasks : pc[t] = "sleeping" /\ wake[t] > now

\* C2: a permit() scope whose request body has finished can always go on to
\* its exit: no task waits for the mutex while the holder of the mutex is
\* itself waiting for it (such a wait never ends)
WaitsForLock(t) == pc[t] \in LockPcs \cup {"eval_lock"}

C2_ScopeExits ==
    \A t \in Tasks :
        (WaitsForLock(t) /\ lock # NoTask) => ~WaitsForLock(lock)

\* C3: no task is suspended while it holds the per-host mutex
C3_NoSuspensionUnderLock ==
    \A t \in Tasks : lock = t => pc[t] \notin SuspendedPcs

\* C4: the tasks inside a permit() scope are at most 3 during warmup and at
\* most current_concurrency afterwards
ConcurrencyBound ==
    IF warmup_completed THEN current_concurrency ELSE WarmupConcurrency

C4_InFlightBound == Cardinality(InScope) <= ConcurrencyBound

\* C6: a 429 report adds exactly 1 to the 429 counter, halves
\* current_concurrency (floor 1), puts a new gate of that capacity in place
\* and sets the backoff multiplier to 2, all in one step; from then on the
\* bucket is refilled at target_rps / 2
C6_Report429 ==
    [][ /\ \A t \in Tasks :
             (pc[t] = "report" /\ status[t] = 429 /\ pc'[t] # "report") =>
                 /\ http_429_count' = http_429_count + 1
                 /\ current_concurrency' = Max(1, current_concurrency \div 2)
                 /\ semaphore' # semaphore
                 /\ semValue'[semaphore'] = current_concurrency'
                 /\ backoff_multiplier' = 2
        /\ backoff_multiplier = 2 =>
             tokens' <= tokens
                 + ((now - last_token_update) * TargetRps * TokenScale) \div 2
      ]_vars

\* C6 witness: a 429 was reported and a later acquire refilled the bucket
C6_Witness ==
    /\ http_429_count = 1
    /\ current_concurrency = 2
    /\ semValue[semaphore] = 2
    /\ backoff_multiplier = 2
    /\ last_token_update > last_backoff_time

\* C7: the bucket holds between 0 and 3 tokens, it starts empty, and every
\* permit takes one whole token: the permits of any interval of length T are
\* at most 3 + target_rps * T, and those of the first T seconds at most
\* target_rps * T
C7_TokenBucket ==
    /\ tokens \in 0..(TokenCapacity * TokenScale)
    /\ total_requests = GrantsIn(0, now)
    /\ \A a \in Times : \A b \in Times :
          (a <= b /\ b <= now) =>
              GrantsIn(a, b) <= TokenCapacity + TargetRps * (b - a)
    /\ \A b \in Times : b <= now => GrantsIn(0, b) <= TargetRps * b

\* C7 witness: the bucket was full when a permit was granted
C7_Witness ==
    /\ total_requests >= 1
    /\ tokens = (TokenCapacity - 1) * TokenScale

PositionOf(games, id) == CHOOSE k \in DOMAIN games : games[k].id = id

\* a differential refresh has ended and has written games-data
DiffWritten == run.kind = "diff" /\ run.mode = "done" /\ run.wrote_games

\* C8: the catalog a differential refresh persists keeps the ids that were
\* there before in the same relative order
C8_DiffKeepsOrder ==
    DiffWritten =>
        \A i \in DOMAIN run.existing_games : \A j \in DOMAIN run.existing_games :
            LET a == run.existing_games[i].id
                b == run.existing_games[j].id
            IN  (i < j /\ HasId(kvGames, a) /\ HasId(kvGames, b)) =>
                    PositionOf(kvGames, a) < PositionOf(kvGames, b)

\* C9: a differential refresh over an upstream that holds what the catalog
\* was built from leaves games-data as it was: same records, same order
C9_UnchangedRefreshIsIdentity ==
    (/\ run.kind = "diff"
     /\ run.mode \in {"done", "aborted"}
     /\ ~run.read_failed
     /\ run.unchanged
     /\ ~run.env_changed) => kvGames = run.existing_games

\* C10: a build run with a failed Storefront fetch writes neither id-map nor
\* games-data
C10_NoWriteAfterFailure ==
    run.failed_games # <<>> => (~run.wrote_id_map /\ ~run.wrote_games)

\* ------------------------------------------------------------ build run claims
\* the ids of a list, as a set
IdSet(list) == Range(IdsOf(list))

\* no id occurs twice in the list
NoDuplicateIds(list) == Cardinality(IdSet(list)) = Len(list)

\* the price-history batch call was made and returned no entry
NoDealsReturned ==
    /\ run.kind \in {"diff", "append"}
    /\ run.asked # {}
    /\ \A a \in run.asked : run.deals[a] = "none"

\* C11: when the price-history batch fetch returns zero entries for at least
\* one submitted history id, the run is aborted and has written neither
\* id-map nor games-data
C11_AbortOnNoDeals ==
    NoDealsReturned =>
        (run.mode = "aborted" /\ ~run.wrote_id_map /\ ~run.wrote_games)

C11_Witness ==
    /\ NoDealsReturned
    /\ run.kind = "append"
    /\ run.batch
    /\ run.mode = "aborted"
    /\ lockFile

\* C12: in an operation that writes both keys, games-data is not written
\* before id-map has been written
C12_IdMapWrittenFirst == run.wrote_games => run.wrote_id_map

\* C13: every id of the persisted games-data has an entry in the persisted
\* id-map, in every state the persisted keys go through
C13_IdMapNeverBehind == IdSet(kvGames) \subseteq IdSet(kvIdMap)

\* C14: after a run that completed and persisted both keys, the persisted
\* id-map and the persisted games-data hold the same ids
C14_IdSetsCoincide ==
    (/\ run.kind \in {"append", "diff"}
     /\ run.mode = "done"
     /\ ~run.read_failed
     /\ run.wrote_id_map
     /\ run.wrote_games) => IdSet(kvIdMap) = IdSet(kvGames)

\* C15: no id occurs twice in the persisted games-data nor in the persisted
\* id-map, after any sequence of append, refresh and delete runs
C15_IdsUnique == NoDuplicateIds(kvGames) /\ NoDuplicateIds(kvIdMap)

C15_Witness ==
    /\ runs = MaxRuns
    /\ run.kind = "append"
    /\ run.mode = "done"
    /\ run.wrote_games
    /\ mappingFile # <<>>
    /\ \E e \in Range(mappingFile) : HasId(kvIdMap, e.id)
    /\ Len(kvGames) >= 2

\* C16: the catalog an append run persists is the loaded catalog, unchanged
\* and in its order, followed by one record for each newly accepted id, in
\* resolver order
C16_AppendKeepsCatalog ==
    (/\ run.kind = "append"
     /\ run.mode = "done"
     /\ ~run.read_failed
     /\ run.wrote_games) =>
        /\ IdsOf(kvGames) = IdsOf(run.existing_games) \o run.new_ids
        /\ SubSeq(kvGames, 1, Len(run.existing_games)) = run.existing_games

\* records completed by the batch loop so far
Completed == run.i - Len(run.failed_games)

\* C17: in batch sub-mode, whenever the number of completed records is a
\* multiple of the checkpoint interval the records are in a shard and the
\* accumulator is empty
C17_CheckpointEveryInterval ==
    (/\ run.kind = "append"
     /\ run.mode = "batch"
     /\ Completed > 0
     /\ Completed % CheckpointInterval = 0) => run.rebuilt_games = <<>>

\* C18: a run restarted with the same title file after a batch run was
\* interrupted behind a shard runs in batch sub-mode and persists a catalog
\* that holds every id the interrupted run accepted
C18_ResumeCompletesBatch ==
    (/\ run.kind = "append"
     /\ run.resumed
     /\ run.new_ids = <<>>
     /\ ~run.read_failed
     /\ run.mode = "done") =>
        /\ run.batch
        /\ \A e \in Range(mappingFile) : HasId(kvGames, e.id)

\* C19: after a batch run that completed and persisted, no checkpoint shard
\* and no resolver TSV is left
C19_CleanedOnSuccess ==
    (/\ run.kind = "append"
     /\ run.batch
     /\ run.mode = "done"
     /\ ~run.read_failed
     /\ run.failed_games = <<>>
     /\ run.wrote_games) => (DOMAIN checkpoints = {} /\ mappingFile = <<>>)

\* C20: a batch sub-mode invocation that has returned has removed the lock
\* file
C20_LockRemovedOnReturn ==
    (/\ run.kind = "append"
     /\ run.batch
     /\ run.mode \in {"save", "put_games", "done"}) => ~lockFile

\* ------------------------------------------------------ retry loop claims
\* C21: a 403 response ends the call with None without another attempt, and
\* its report adds 1 to the 403 counter and changes nothing else of the
\* controller: current_concurrency, the gate, the backoff multiplier, the
\* token bucket and the window stay as they are and the task does not sleep
C21_Report403 ==
    [][ \A t \in Tasks :
          (pc[t] = "report" /\ status[t] = 403 /\ pc'[t] # "report") =>
              /\ http_403_count' = http_403_count + 1
              /\ pc'[t] = "failed"
              /\ attempt'[t] = attempt[t]
              /\ wake'[t] = wake[t]
              /\ UNCHANGED <<http_429_count, current_concurrency, semaphore,
                             semValue, backoff_multiplier, last_backoff_time,
                             tokens, last_token_update, sent_times,
                             total_requests, now>>
      ]_vars

\* C21 witness: a 403 was reported on the first attempt of a call, which has
\* ended, while other requests had been granted
C21_Witness ==
    /\ http_403_count = 1
    /\ \E t \in Tasks : pc[t] = "failed" /\ attempt[t] = 0
    /\ total_requests >= 2

\* C22: an attempt that fails with a transient network failure or a timeout
\* is followed, while fewer than 3 attempts were made, by a sleep of
\* 2^k seconds after the k-th attempt and another attempt under a new
\* permit; the third failure ends the call with None, and no failure leaves
\* the call as an exception
C22_TransientFailureRetried ==
    [][ \A t \in Tasks :
          (pc[t] = "record_error" /\ pc'[t] # "record_error") =>
              IF attempt[t] < MaxRetries - 1
              THEN /\ pc'[t] = "retry_wait"
                   /\ wake'[t] = now + 2 ^ (attempt[t] + 1)
                   /\ attempt'[t] = attempt[t] + 1
              ELSE pc'[t] = "failed"
      ]_vars

\* C23: after a 429 report the reporting task sleeps, with the mutex free,
\* exactly retry_after seconds whenever a Retry-After value is there, 0
\* included; only without one it sleeps b plus a jitter of at most b / 10,
\* with b = min(60, 5 * 2^min(k - 1, 3)) for k the 429 counter after the
\* increment
C23_BackoffSleep ==
    [][ \A t \in Tasks :
          (pc[t] = "report" /\ status[t] = 429 /\ pc'[t] # "report") =>
              /\ pc'[t] = "backoff"
              /\ lock' = NoTask
              /\ IF retryAfter[t] # NoRetryAfter
                 THEN wake'[t] = now + retryAfter[t]
                 ELSE LET k == http_429_count'
                          b == Min(60, 5 * 2 ^ Min(k - 1, 3))
                      IN  wake'[t] - now \in b..(b + b \div 10)
      ]_vars

\* --------------------------------------------------- diff refresh claims
\* the step that starts a differential refresh and gets through Phase 1
Phase1Done ==
    /\ RunEnded
    /\ run'.kind = "diff"
    /\ run'.mode \in {"phase15", "phase2", "save"}

\* C24: Phase 1 puts every id of the id-map whose catalog record does not
\* carry noItadData into exactly one of the two lists: into games_to_update
\* when it has no itad id, when the batch returned no usable deal for its
\* itad id, or when the stored (price, cut) differs from the new (price,
\* cut), and into games_no_change otherwise; no itad id of a record that
\* carries noItadData is submitted to the batch call
C24_Phase1Classes ==
    [][ Phase1Done =>
          LET r == run'
              toUpdate == Range(r.games_to_update)
              noChange == Range(r.games_no_change)
          IN  /\ \A e \in Range(r.id_map) :
                    (HasId(r.existing_games, e.id)
                     /\ ~EntryOf(r.existing_games, e.id).noItadData) =>
                        LET stored == EntryOf(r.existing_games, e.id)
                            itadId == EntryOf(r.id_map, e.id).itadId
                            refetch == \/ itadId = NoItadId
                                       \/ r.deals[itadId] \in {"none", "dash"}
                            differs ==
                                \/ stored.price # ItadPrice(r.deals[itadId])
                                \/ stored.cut # ItadCut(r.deals[itadId])
                        IN  /\ (e.id \in toUpdate) # (e.id \in noChange)
                            /\ e.id \notin Range(r.queue)
                            /\ e.id \in toUpdate <=> (refetch \/ differs)
              /\ \A g \in Range(r.existing_games) :
                    g.noItadData => ItadIdOf(r.id_map, g.id) \notin r.asked
      ]_vars

\* C24 witness: Phase 1 has put one game in each list, and a record that
\* carries noItadData has an itad id in the id-map
C24_Witness ==
    /\ run.kind = "diff"
    /\ run.mode \in {"phase15", "phase2"}
    /\ run.games_to_update # <<>>
    /\ run.games_no_change # <<>>
    /\ \E g \in Range(run.existing_games) :
          g.noItadData /\ ItadIdOf(run.id_map, g.id) # NoItadId

\* the price the Storefront shows for a game: the sale price when it is on
\* sale, else the regular price
StorefrontPrice(id) == IF steamSale[id] THEN SalePrice ELSE RegularPrice

\* C25: Phase 1.5 marks a record that carries noItadData for update exactly
\* when the fetched steam_current differs from its stored price; Phase 2
\* rebuilds a marked record with noItadData set and the new price, and a
\* record that was not marked is copied as it is
C25_Phase15 ==
    [][ /\ (run.mode = "phase15" /\ run' # run /\ pipeFaults' = pipeFaults) =>
              LET id == Head(run.queue)
                  stored == EntryOf(run.existing_games, id)
                  marked == run'.games_to_update = Append(run.games_to_update, id)
                  kept == run'.games_no_change = Append(run.games_no_change, id)
              IN  /\ marked # kept
                  /\ marked <=> StorefrontPrice(id) # stored.price
                  /\ kept => stored \in Range(run'.rebuilt_games)
                               \/ run'.mode = "phase15"
        /\ (run.mode = "phase2" /\ run' # run /\ pipeFaults' = pipeFaults
            /\ EntryOf(run.existing_games, Head(run.games_to_update)).noItadData) =>
              LET id == Head(run.games_to_update)
                  game == run'.rebuilt_games[Len(run'.rebuilt_games)]
              IN  /\ Len(run'.rebuilt_games) = Len(run.rebuilt_games) + 1
                  /\ game.id = id
                  /\ game.noItadData
                  /\ game.price = StorefrontPrice(id)
        /\ (run.mode = "phase15" /\ run'.mode \in {"phase2", "save"}) =>
              \A k \in DOMAIN run'.games_no_change :
                  EntryOf(run.existing_games, run'.games_no_change[k])
                      \in Range(run'.rebuilt_games)
      ]_vars

\* C25 witness: one record that carries noItadData was marked and rebuilt
\* at the sale price, another one was copied
C25_Witness ==
    /\ run.kind = "diff"
    /\ run.mode = "save"
    /\ \E g \in Range(run.rebuilt_games) :
          /\ g.noItadData
          /\ g.price = SalePrice
          /\ EntryOf(run.existing_games, g.id).noItadData
          /\ EntryOf(run.existing_games, g.id).price = RegularPrice
    /\ \E g \in Range(run.rebuilt_games) :
          /\ g.noItadData
          /\ g.id \in Range(run.games_no_change)

\* the Storefront requests that are not Details requests of a further region
MainRequests(c) == c.details + c.pages + c.reviews

\* C26: a differential refresh issues one Details request for every id it
\* checks in Phase 1.5 and three requests (Details, store page, reviews) for
\* every id it rebuilds in Phase 2, apart from the Details requests of the
\* further regions; Phase 1 issues none, so an id it left unchanged causes
\* no request
C26_StorefrontRequests ==
    [][ (run'.kind = "diff" /\ run' # run /\ pipeFaults' = pipeFaults) =>
          IF RunEnded THEN MainRequests(run'.requests) = 0
          ELSE LET added == MainRequests(run'.requests) - MainRequests(run.requests)
               IN  /\ run.mode = "phase15" => added = 1
                   /\ run.mode = "phase2" => added = 3
                   /\ run.mode \notin {"phase15", "phase2"} => added = 0
      ]_vars

\* ---------------------------------------------------- pure function claims
\* (a - b) / a * 100 rounded to the nearest integer
RoundedCut(a, b) == (200 * (a - b) + a) \div (2 * a)

\* C27: every deal constructed from Storefront prices with
\* regular >= price >= 0 has cut = round((regular - price) / regular * 100),
\* 0 <= cut <= 100, and cut = 0 exactly when price = regular
C27_SynthesizedCut ==
    (calc.op = "deal" /\ calc.out.regular > 0
     /\ calc.out.regular >= calc.out.price /\ calc.out.price >= 0) =>
        /\ calc.out.cut = RoundedCut(calc.out.regular, calc.out.price)
        /\ calc.out.cut \in 0..100
        /\ calc.out.cut = 0 <=> calc.out.price = calc.out.regular

\* C28: price extraction gives price 0 for a free game; otherwise the
\* regular price is ceil(initial / 100), or ceil(final / 100) when initial
\* is 0, and salePrice is there, and is ceil(final / 100), exactly when
\* initial > final > 0
C28_ExtractedPrice ==
    (calc.op = "price" /\ calc.in.overview) =>
        IF calc.in.is_free THEN calc.out.price = 0
        ELSE /\ calc.out.price =
                  IF calc.in.initial = 0
                  THEN CeilDiv(calc.in.final, 100)
                  ELSE CeilDiv(calc.in.initial, 100)
             /\ calc.out.salePrice # NoPrice <=>
                  (calc.in.initial > calc.in.final /\ calc.in.final > 0)
             /\ calc.out.salePrice # NoPrice =>
                  calc.out.salePrice = CeilDiv(calc.in.final, 100)

\* C30: find_best_match finds no match when no candidate scores 60 or more,
\* the line is ambiguous and nothing is added to the id-map when more than
\* one candidate scores 100, and otherwise the top candidate is accepted
\* only when it scores 80 or more
C30_BestMatch ==
    calc.op = "match" =>
        LET high == SelectSeq(calc.in, LAMBDA x : x >= 60)
            exact == SelectSeq(calc.in, LAMBDA x : x = 100)
        IN  /\ high = <<>> => calc.out.outcome = "none" /\ ~calc.out.added
            /\ Len(exact) > 1 => calc.out.outcome = "multiple" /\ ~calc.out.added
            /\ calc.out.added =>
                  /\ calc.out.score >= 80
                  /\ \A k \in DOMAIN calc.in : calc.in[k] <= calc.out.score

\* ------------------------------------------------------------ fetch claims
\* C29: the store page, the reviews and the further regions of an id are
\* requested only after its Details request has returned data; when the
\* Details request fails or reports success false none of them is requested
\* and the call returns None; a failed store page or reviews request does
\* not make the call return None
C29_DetailsFirst ==
    LET further == {fetch.page, fetch.review} \cup Range(fetch.extra)
    IN  /\ further # {"idle"} => fetch.details = "ok"
        /\ fetch.details \in {"failed", "unavailable"} =>
              further = {"idle"} /\ fetch.result = "none"
        /\ fetch.result = "none" => fetch.details \in {"failed", "unavailable"}
        /\ (fetch.details = "ok" /\ fetch.result # "pending") =>
              fetch.result = "data"

\* C29 witness: a call has returned data although its store page request
\* and its reviews request failed
C29_Witness ==
    /\ fetch.details = "ok"
    /\ fetch.page = "failed"
    /\ fetch.review = "failed"
    /\ fetch.regions > 1
    /\ fetch.result = "data"

\* ---------------------------------------------------------- resolver claims
\* how often an id occurs in a list of entries
Occurrences(list, id) == Cardinality({k \in DOMAIN list : list[k].id = id})

\* C31: every mapping the resolver accepts is in mapping_result.txt when the
\* resolver goes on, and a later resolution reuses the file: an id of the
\* file is restored into the id-map, is not resolved again, and is exactly
\* once in the id-map of the run and exactly once in the file, however the
\* earlier runs ended
C31_ResolverResume ==
    [][ (RunEnded /\ run'.kind = "append" /\ runs' = runs + 1) =>
          /\ \A k \in DOMAIN mappingFile : mappingFile'[k] = mappingFile[k]
          /\ \A e \in Range(mappingFile') :
                /\ Occurrences(mappingFile', e.id) = 1
                /\ Occurrences(run'.id_map, e.id) = 1
          /\ \A id \in Range(run'.new_ids) :
                ~HasId(mappingFile, id) /\ HasId(mappingFile', id)
      ]_vars

\* C31 witness: an append run was interrupted after its resolution, and the
\* next run has restored an id from the file that the persisted id-map does
\* not hold
C31_Witness ==
    /\ runs = 2
    /\ run.kind = "append"
    /\ run.mode \in {"normal", "batch"}
    /\ \E e \in Range(mappingFile) :
          /\ ~HasId(kvIdMap, e.id)
          /\ e.id \notin Range(run.new_ids)
          /\ HasId(run.id_map, e.id)

\* ------------------------------------------------------------ backup claim
\* C32: after a successful catalog write the file created under data/backups
\* holds the catalog as it was before the write, not the content just written
C32_BackupIsSnapshot ==
    [][ (run.mode = "put_games" /\ run'.backup.made) =>
            run'.backup.games = kvGames ]_vars

\* ------------------------------------------------------------ warmup claim
\* C33: as long as warmup is not completed at most 3 tasks are inside a
\* permit() scope, whatever current_concurrency is and whether or not a 429
\* was reported; warmup completes exactly with the sample that brings
\* rtt_samples to warmup_requests, base_rtt is set at that step to the median
\* clamped to [0.5, 3.0] seconds and never again, and warmup_completed never
\* goes back to false
C33_Warmup ==
    [][ /\ ~warmup_completed' =>
              /\ Cardinality(InScope') <= WarmupConcurrency
              /\ Len(rtt_samples') < WarmupRequests
              /\ base_rtt' = 0
        /\ (~warmup_completed /\ warmup_completed') =>
              /\ Len(rtt_samples') = WarmupRequests
              /\ base_rtt' = BaseRtt(rtt_samples')
              /\ base_rtt' \in MinBaseRttTenths..MaxBaseRttTenths
        /\ warmup_completed =>
              /\ warmup_completed'
              /\ base_rtt' = base_rtt
      ]_vars

\* C33 witness: a 429 has halved current_concurrency during warmup and three
\* tasks are in their scopes while a fourth waits at the warmup gate
C33_Witness ==
    /\ ~warmup_completed
    /\ http_429_count > 0
    /\ current_concurrency < WarmupConcurrency
    /\ Cardinality(InScope) = WarmupConcurrency
    /\ \E t \in Tasks : pc[t] = "sem_wait" /\ sem[t] = WarmupSem

\* -------------------------------------------------------- adjustment claims
\* the decrease condition of the evaluation a success record has just made
DecreaseHeld ==
    DecreaseCondition(sent_times', rtt_samples', ewma_rtt', base_rtt',
                      success_times', error_times', now)

C36_MultiplierStays ==
    [][ http_429_count > 0 =>
            /\ backoff_multiplier = 2
            /\ backoff_multiplier' = 2
            /\ tokens' <= tokens
                 + ((now' - last_token_update) * TargetRps * TokenScale) \div 2
      ]_vars

\* C36 witness: after the 429 a 403 was reported, a success was recorded and
\* the bucket was refilled
C36_Witness ==
    /\ http_429_count > 0
    /\ http_403_count > 0
    /\ backoff_multiplier = 2
    /\ last_token_update > last_backoff_time
    /\ \E k \in DOMAIN success_times : success_times[k] > last_backoff_time
    /\ pc[Client] = "failed"

\* ------------------------------------------------------- scope exit claim
\* C37: a request that got a response of status 429, 403 or 5xx leaves its
\* permit() scope as a success: a sample and a success time are recorded and
\* error_times and network_error_count stay as they are; error_times grows
\* only when a task whose request body raised an exception records it
C37_ResponsesAreSuccesses ==
    [][ /\ \A t \in Tasks :
            /\ (pc[t] = "request" /\ pc'[t] # "request"
                /\ status'[t] \in {403, 429, 500}) =>
                   pc'[t] = "record_success"
            /\ (pc[t] = "record_success" /\ pc'[t] # "record_success") =>
                   /\ success_times' = Append(success_times, now)
                   /\ rtt_samples' = Append(rtt_samples, now - start[t])
                   /\ error_times' = error_times
                   /\ network_error_count' = network_error_count
        /\ (error_times' # error_times
            \/ network_error_count' # network_error_count) =>
              \E t \in Tasks : /\ pc[t] = "record_error"
                               /\ pc'[t] # "record_error"
                               /\ status[t] \in {ClientError, TimeoutError}
      ]_vars

\* C37 witness: a 5xx response was recorded as a success and its client is
\* waiting for its next attempt, with no error recorded
C37_Witness ==
    /\ \E t \in Tasks : pc[t] = "retry_wait" /\ status[t] = 500
    /\ Len(success_times) = 1
    /\ Len(rtt_samples) = 1
    /\ error_times = <<>>
    /\ network_error_count = 0

\* --------------------------------------------------- persisted data claims
\* C38: no step of an append or diff-refresh run takes an id out of the
\* persisted games-data or out of the persisted id-map, also when a read of
\* the run failed and was reported as an empty list
C38_NoStoredDataLost ==
    [][ run'.kind \in {"append", "diff"} =>
            /\ IdSet(kvGames) \subseteq IdSet(kvGames')
            /\ IdSet(kvIdMap) \subseteq IdSet(kvIdMap')
      ]_vars

\* C39: a batch run that starts with no lock file on disk is a new batch: it
\* takes every new id of the run, from the first one, as the ids to process,
\* whatever shards earlier runs left on disk
C39_NewBatchFromFirstId ==
    [][ (/\ RunEnded
         /\ runs' = runs + 1
         /\ run'.kind = "append"
         /\ run'.batch
         /\ ~lockFile) =>
            /\ run'.start_index = 0
            /\ run'.queue = run'.new_ids
      ]_vars

\* C40: the catalog a diff-refresh run persists holds exactly the ids of the
\* catalog the run loaded, also when the loaded catalog and the id-map do not
\* hold the same ids
C40_RefreshKeepsIdSet ==
    (/\ run.kind = "diff"
     /\ run.mode = "done"
     /\ ~run.read_failed
     /\ run.wrote_games) => IdSet(kvGames) = IdSet(run.existing_games)

====
